---- MODULE Spec2Model ----
(***************************************************************************)
(* A model of neet's weight/threshold boolean network                      *)
(* (neet/boolean/wtnetwork.py): construction, the validated and the        *)
(* unchecked update, the three threshold functions and the neighbour       *)
(* queries; and of the constructor and the size of the rewired elementary  *)
(* cellular automaton (neet/automata/reca.py).                             *)
(*                                                                         *)
(* Python values are encoded as follows.                                   *)
(*   list / 1-D data     a function over 0..len-1 (Python's indices)       *)
(*   numpy array         [shape |-> <<d1,..>>, data |-> row-major function] *)
(*   pin (a list)        a TLA+ sequence of ints, in list order            *)
(*   values (a dict)     a TLA+ sequence of [k, v] records with distinct   *)
(*                       keys, in the dict's iteration order               *)
(*   None-able argument  a record with an isNone flag                      *)
(*   untyped argument    [type |-> "NoneType" | "int" | "str", val |-> n]  *)
(*   exception           exc in {"none","ValueError","TypeError",          *)
(*                       "IndexError"} and the message msg                 *)
(* Weights and thresholds are floats in the source; the model uses small   *)
(* integers, on which float arithmetic is exact.                           *)
(***************************************************************************)
EXTENDS Integers, Sequences, FiniteSets, TLC

VARIABLES weights, thresholds, theta, names, size, states, call, result, reca

vars == <<weights, thresholds, theta, names, size, states, call, result, reca>>

netvars == <<weights, thresholds, theta, names, size, reca>>

(***************************************************************************)
(* Bounds of the model.                                                    *)
(***************************************************************************)
\* largest network size explored
MaxSize == 2
\* longest pin list explored by the pin-only calls
MaxPin == 2

\* entries of the weight matrix and of the threshold vector
WeightVals == {-1, 0, 1}

\* entries a caller may put in a state vector or in values (2 is not binary)
EntryVals == {0, 1, 2}

(***************************************************************************)
(* Python list and numpy helpers.                                          *)
(***************************************************************************)
\* len() of a list encoded as a function over 0..len-1
PyLen(xs) == Cardinality(DOMAIN xs)

\* Python / numpy index check: -n <= i < n
InRange(i, n) == (-n <= i) /\ (i < n)

\* Python / numpy wraparound of a negative index
Norm(i, n) == IF i < 0 THEN i + n ELSE i

RECURSIVE Prod(_)
Prod(shape) == IF Len(shape) = 0 THEN 1 ELSE Head(shape) * Prod(Tail(shape))

\* np.zeros(shape)
np_zeros(shape) == [shape |-> shape, data |-> [k \in 0..(Prod(shape) - 1) |-> 0]]

\* a.ndim and a.size of a numpy array
ndim(a) == Len(a.shape)
np_size(a) == Prod(a.shape)

\* weights[index] for an in-range index of a 2-D array: row index, as a list
Row(a, index) ==
    LET c == a.shape[2]
        r == Norm(index, a.shape[1])
    IN  [j \in 0..(c - 1) |-> a.data[r * c + j]]

\* the dot product of two equal-length vectors, summed from position k on
RECURSIVE DotFrom(_, _, _)
DotFrom(row, xs, k) ==
    IF k >= PyLen(row) THEN 0 ELSE row[k] * xs[k] + DotFrom(row, xs, k + 1)

\* np.dot(row, states) for 1-D operands
Dot(row, xs) == DotFrom(row, xs, 0)

\* np.flatnonzero(xs): the indices of the nonzero entries, scanned from k on
RECURSIVE FlatNonzeroFrom(_, _)
FlatNonzeroFrom(xs, k) ==
    IF k >= PyLen(xs) THEN {}
    ELSE (IF xs[k] # 0 THEN {k} ELSE {}) \union FlatNonzeroFrom(xs, k + 1)

flatnonzero(xs) == FlatNonzeroFrom(xs, 0)

\* weights[:, index]: column index of a 2-D array, as a list
Col(a, index) ==
    LET c == a.shape[2]
        k == Norm(index, c)
    IN  [i \in 0..(a.shape[1] - 1) |-> a.data[i * c + k]]

(***************************************************************************)
(* The threshold functions.  Each has a list form, which writes states in  *)
(* place while enumerating values, and a scalar form.                      *)
(***************************************************************************)
ThetaNames == {"split_threshold", "negative_threshold", "positive_threshold"}

\* split_threshold's scalar branch without the tie at zero
split_threshold_scalar_no_tie(x, y) ==
    IF x <= 0 THEN 0 ELSE 1

\* split_threshold, scalar branch
split_threshold_scalar(x, y) ==
    IF x < 0 THEN 0
    ELSE IF x > 0 THEN 1
    ELSE y

\* split_threshold's list branch clearing the state at a zero shifted value
RECURSIVE split_threshold_list_no_tie(_, _, _)
split_threshold_list_no_tie(vals, sts, i) ==
    IF i >= PyLen(vals) THEN sts
    ELSE IF vals[i] <= 0 THEN split_threshold_list_no_tie(vals, [sts EXCEPT ![i] = 0], i + 1)
    ELSE split_threshold_list_no_tie(vals, [sts EXCEPT ![i] = 1], i + 1)

\* split_threshold, list branch: the loop from position i on
RECURSIVE split_threshold_list(_, _, _)
split_threshold_list(vals, sts, i) ==
    IF i >= PyLen(vals) THEN sts
    ELSE IF vals[i] < 0 THEN split_threshold_list(vals, [sts EXCEPT ![i] = 0], i + 1)
    ELSE IF vals[i] > 0 THEN split_threshold_list(vals, [sts EXCEPT ![i] = 1], i + 1)
    ELSE split_threshold_list(vals, sts, i + 1)

\* negative_threshold, scalar branch
negative_threshold_scalar(x, y) ==
    IF x <= 0 THEN 0 ELSE 1

\* negative_threshold, list branch
RECURSIVE negative_threshold_list(_, _, _)
negative_threshold_list(vals, sts, i) ==
    IF i >= PyLen(vals) THEN sts
    ELSE IF vals[i] <= 0 THEN negative_threshold_list(vals, [sts EXCEPT ![i] = 0], i + 1)
    ELSE negative_threshold_list(vals, [sts EXCEPT ![i] = 1], i + 1)

\* positive_threshold, scalar branch
positive_threshold_scalar(x, y) ==
    IF x < 0 THEN 0 ELSE 1

\* positive_threshold, list branch
RECURSIVE positive_threshold_list(_, _, _)
positive_threshold_list(vals, sts, i) ==
    IF i >= PyLen(vals) THEN sts
    ELSE IF vals[i] < 0 THEN positive_threshold_list(vals, [sts EXCEPT ![i] = 0], i + 1)
    ELSE positive_threshold_list(vals, [sts EXCEPT ![i] = 1], i + 1)

\* self.theta(temp, states[index]) with a scalar temp
theta_scalar(th, x, y) ==
    IF th = "split_threshold" THEN split_threshold_scalar(x, y)
    ELSE IF th = "negative_threshold" THEN negative_threshold_scalar(x, y)
    ELSE positive_threshold_scalar(x, y)

\* self.theta(temp, states) with an array temp; the result is states after the call
theta_list(th, vals, sts) ==
    IF th = "split_threshold" THEN split_threshold_list(vals, sts, 0)
    ELSE IF th = "negative_threshold" THEN negative_threshold_list(vals, sts, 0)
    ELSE positive_threshold_list(vals, sts, 0)

(***************************************************************************)
(* WTNetwork.__init__                                                      *)
(***************************************************************************)
\* the exception-free outcome marker and the outcome of a failed call
NoExc == "none"

\* the object fields left when __init__ raised: there is no object
NoNet == [weights |-> np_zeros(<<0, 0>>), thresholds |-> np_zeros(<<0>>),
          theta |-> "None", names |-> [isNone |-> TRUE, items |-> <<>>], size |-> 0]

InitError(exc, msg) == [exc |-> exc, msg |-> msg, obj |-> NoNet]

\* callable(theta) for the values theta takes in the model
callable(th) == th \in ThetaNames \union {"custom_theta"}

\* __init__ without the comparison of the weights' and thresholds' dimensions
WTNetwork_init_unmatched(wArg, tArg, nArg, thArg) ==
    IF wArg.kind = "int" /\ wArg.n < 0
    THEN InitError("ValueError", "negative dimensions are not allowed")
    ELSE
    LET w == IF wArg.kind = "int" THEN np_zeros(<<wArg.n, wArg.n>>)
             ELSE [shape |-> wArg.shape, data |-> wArg.data]
    IN
    IF ndim(w) # 2 THEN InitError("ValueError", "weights must be a matrix")
    ELSE IF w.shape[1] # w.shape[2] THEN InitError("ValueError", "weights must be square")
    ELSE
    LET t  == IF tArg.isNone THEN np_zeros(<<w.shape[2]>>)
              ELSE [shape |-> tArg.shape, data |-> tArg.data]
        sz == np_size(t)
    IN
    IF thArg # "None" /\ ~callable(thArg)
    THEN InitError("TypeError", "theta must be a function")
    ELSE
    LET th == IF thArg = "None" THEN "split_threshold" ELSE thArg
    IN
    IF ndim(t) # 1 THEN InitError("ValueError", "thresholds must be a vector")
    ELSE IF sz < 1 THEN InitError("ValueError", "invalid network size")
    ELSE IF ~nArg.isNone /\ Len(nArg.items) # sz
    THEN InitError("ValueError", "either all or none of the nodes may have a name")
    ELSE [exc |-> NoExc, msg |-> "",
          obj |-> [weights |-> w, thresholds |-> t, theta |-> th,
                   names |-> nArg, size |-> sz]]

\* WTNetwork.__init__(weights, thresholds, names, theta).  wArg is an int
\* (kind "int") or an array-like (kind "array"); tArg and nArg may be None;
\* thArg is "None", the name of a callable, or "not_callable".
WTNetwork_init(wArg, tArg, nArg, thArg) ==
    IF wArg.kind = "int" /\ wArg.n < 0
    THEN InitError("ValueError", "negative dimensions are not allowed")
    ELSE
    LET w == IF wArg.kind = "int" THEN np_zeros(<<wArg.n, wArg.n>>)
             ELSE [shape |-> wArg.shape, data |-> wArg.data]
    IN
    IF ndim(w) # 2 THEN InitError("ValueError", "weights must be a matrix")
    ELSE IF w.shape[1] # w.shape[2] THEN InitError("ValueError", "weights must be square")
    ELSE
    LET t  == IF tArg.isNone THEN np_zeros(<<w.shape[2]>>)
              ELSE [shape |-> tArg.shape, data |-> tArg.data]
        sz == np_size(t)
    IN
    IF thArg # "None" /\ ~callable(thArg)
    THEN InitError("TypeError", "theta must be a function")
    ELSE
    LET th == IF thArg = "None" THEN "split_threshold" ELSE thArg
    IN
    IF ndim(t) # 1 THEN InitError("ValueError", "thresholds must be a vector")
    ELSE IF w.shape[1] # sz
    THEN InitError("ValueError", "weights and thresholds have different dimensions")
    ELSE IF sz < 1 THEN InitError("ValueError", "invalid network size")
    ELSE IF ~nArg.isNone /\ Len(nArg.items) # sz
    THEN InitError("ValueError", "either all or none of the nodes may have a name")
    ELSE [exc |-> NoExc, msg |-> "",
          obj |-> [weights |-> w, thresholds |-> t, theta |-> th,
                   names |-> nArg, size |-> sz]]

(***************************************************************************)
(* Membership in the network's state space, StateSpace(size, base=2).      *)
(***************************************************************************)
state_space_contains(n, sts) ==
    /\ PyLen(sts) = n
    /\ \A i \in DOMAIN sts : sts[i] \in {0, 1}

(***************************************************************************)
(* WTNetwork._unsafe_update                                                *)
(***************************************************************************)
NoneIndex == [isNone |-> TRUE, val |-> 0]
NonePin == [isNone |-> TRUE, items |-> <<>>]
NoneValues == [isNone |-> TRUE, items |-> <<>>]

Outcome(sts, exc, msg) == [states |-> sts, exc |-> exc, msg |-> msg]

\* np.asarray(states)[pin]: a copy of the pinned entries, in pin order
pinned_copy(sts, pin) ==
    [j \in 1..Len(pin) |-> sts[Norm(pin[j], PyLen(sts))]]

\* temp = np.dot(self.weights, states) - self.thresholds
shifted(W, T, sts) ==
    [i \in 0..(W.shape[1] - 1) |-> Dot(Row(W, i), sts) - T.data[i]]

\* for (j, i) in enumerate(pin): states[i] = pinned[j], from entry j on
RECURSIVE restore_pinned(_, _, _, _)
restore_pinned(sts, pin, pinned, j) ==
    IF j > Len(pin) THEN sts
    ELSE restore_pinned([sts EXCEPT ![Norm(pin[j], PyLen(sts))] = pinned[j]],
                        pin, pinned, j + 1)

\* a sweep that updates node after node, each reading the entries already written
RECURSIVE sequential_sweep(_, _, _, _, _)
sequential_sweep(W, T, th, sts, i) ==
    IF i >= W.shape[1] THEN sts
    ELSE sequential_sweep(W, T, th,
            [sts EXCEPT ![i] = theta_scalar(th, Dot(Row(W, i), sts) - T.data[i], sts[i])],
            i + 1)

\* whole_update with the shifted values computed during the sweep
whole_update_sequential(W, T, th, sts, pin) ==
    LET pin_states == ~pin.isNone /\ pin.items # <<>>
    IN
    IF pin_states /\ \E j \in 1..Len(pin.items) : ~InRange(pin.items[j], PyLen(sts))
    THEN Outcome(sts, "IndexError", "index is out of bounds")
    ELSE
    LET pinned == IF pin_states THEN pinned_copy(sts, pin.items) ELSE <<>>
        after  == sequential_sweep(W, T, th, sts, 0)
    IN  IF pin_states
        THEN Outcome(restore_pinned(after, pin.items, pinned, 1), NoExc, "")
        ELSE Outcome(after, NoExc, "")

\* whole_update with the pinned entries read after theta has written states
whole_update_late_snapshot(W, T, th, sts, pin) ==
    LET pin_states == ~pin.isNone /\ pin.items # <<>>
    IN
    IF pin_states /\ \E j \in 1..Len(pin.items) : ~InRange(pin.items[j], PyLen(sts))
    THEN Outcome(sts, "IndexError", "index is out of bounds")
    ELSE
    LET temp   == shifted(W, T, sts)
        after  == theta_list(th, temp, sts)
        pinned == IF pin_states THEN pinned_copy(after, pin.items) ELSE <<>>
    IN  IF pin_states
        THEN Outcome(restore_pinned(after, pin.items, pinned, 1), NoExc, "")
        ELSE Outcome(after, NoExc, "")

\* the index-is-None branch
whole_update(W, T, th, sts, pin) ==
    LET pin_states == ~pin.isNone /\ pin.items # <<>>
    IN
    IF pin_states /\ \E j \in 1..Len(pin.items) : ~InRange(pin.items[j], PyLen(sts))
    THEN Outcome(sts, "IndexError", "index is out of bounds")
    ELSE
    LET pinned == IF pin_states THEN pinned_copy(sts, pin.items) ELSE <<>>
        temp   == shifted(W, T, sts)
        after  == theta_list(th, temp, sts)
    IN  IF pin_states
        THEN Outcome(restore_pinned(after, pin.items, pinned, 1), NoExc, "")
        ELSE Outcome(after, NoExc, "")

\* single_update with the threshold left out of the shifted value
single_update_unshifted(W, T, th, sts, index) ==
    IF ~InRange(index, W.shape[1])
    THEN Outcome(sts, "IndexError", "index is out of bounds")
    ELSE
    LET temp == Dot(Row(W, index), sts)
        node == Norm(index, PyLen(sts))
    IN  Outcome([sts EXCEPT ![node] = theta_scalar(th, temp, sts[node])], NoExc, "")

\* the index-given branch
single_update(W, T, th, sts, index) ==
    IF ~InRange(index, W.shape[1])
    THEN Outcome(sts, "IndexError", "index is out of bounds")
    ELSE
    LET temp == Dot(Row(W, index), sts) - T.data[Norm(index, np_size(T))]
        node == Norm(index, PyLen(sts))
    IN  Outcome([sts EXCEPT ![node] = theta_scalar(th, temp, sts[node])], NoExc, "")

\* for key in values: states[key] = values[key], from item k on
RECURSIVE set_values(_, _, _)
set_values(sts, items, k) ==
    IF k > Len(items) THEN Outcome(sts, NoExc, "")
    ELSE IF ~InRange(items[k].k, PyLen(sts))
    THEN Outcome(sts, "IndexError", "list assignment index out of range")
    ELSE set_values([sts EXCEPT ![Norm(items[k].k, PyLen(sts))] = items[k].v],
                    items, k + 1)

\* what a call hands back: nothing when it raises, else an object and its content
NoReturn == [obj |-> "none", val |-> <<>>]

\* return states: the list object the caller passed in, as the routine left it
return_states(r) ==
    [states |-> r.states, exc |-> r.exc, msg |-> r.msg,
     ret |-> IF r.exc = NoExc THEN [obj |-> "states", val |-> r.states] ELSE NoReturn]

\* the core routine working on a copy of states and returning the copy
unsafe_update_on_copy(W, T, th, sts, index, pin, values) ==
    LET first == IF index.isNone
                 THEN whole_update(W, T, th, sts, pin)
                 ELSE single_update(W, T, th, sts, index.val)
        last  == IF first.exc # NoExc THEN first
                 ELSE IF ~values.isNone THEN set_values(first.states, values.items, 1)
                 ELSE first
    IN  [states |-> sts, exc |-> last.exc, msg |-> last.msg,
         ret |-> IF last.exc = NoExc THEN [obj |-> "copy", val |-> last.states] ELSE NoReturn]

unsafe_update(W, T, th, sts, index, pin, values) ==
    LET first == IF index.isNone
                 THEN whole_update(W, T, th, sts, pin)
                 ELSE single_update(W, T, th, sts, index.val)
    IN  IF first.exc # NoExc THEN return_states(first)
        ELSE IF ~values.isNone
        THEN return_states(set_values(first.states, values.items, 1))
        ELSE return_states(first)

(***************************************************************************)
(* WTNetwork.update                                                        *)
(***************************************************************************)
Rejected(sts, msg) ==
    [states |-> sts, exc |-> "ValueError", msg |-> msg, core |-> FALSE, ret |-> NoReturn]

\* k in pin, for a list pin
InList(k, items) == \E j \in 1..Len(items) : items[j] = k

\* update with the values checked only after the core routine has run
update_late_values_check(n, W, T, th, sts, index, pin, values) ==
    IF ~state_space_contains(n, sts)
    THEN Rejected(sts, "the provided state is not in the network's state space")
    ELSE IF ~index.isNone /\ ~pin.isNone /\ pin.items # <<>>
    THEN Rejected(sts, "cannot provide both the index and pin arguments")
    ELSE IF ~index.isNone /\ ~values.isNone /\ values.items # <<>>
    THEN Rejected(sts, "cannot provide both the index and values arguments")
    ELSE IF /\ index.isNone /\ ~pin.isNone /\ ~values.isNone
            /\ \E k \in 1..Len(values.items) : InList(values.items[k].k, pin.items)
    THEN Rejected(sts, "cannot set a value for a pinned state")
    ELSE
    LET r == unsafe_update(W, T, th, sts, index, pin, NoneValues)
    IN  IF ~values.isNone /\ \E k \in 1..Len(values.items) : values.items[k].v \notin {0, 1}
        THEN Rejected(r.states, "invalid state in values argument")
        ELSE LET q == unsafe_update(W, T, th, sts, index, pin, values)
             IN  [states |-> q.states, exc |-> q.exc, msg |-> q.msg, core |-> TRUE,
                  ret |-> q.ret]

\* update without the guard on a key of values that is also in pin
update_no_overlap_guard(n, W, T, th, sts, index, pin, values) ==
    IF ~state_space_contains(n, sts)
    THEN Rejected(sts, "the provided state is not in the network's state space")
    ELSE IF ~index.isNone /\ ~pin.isNone /\ pin.items # <<>>
    THEN Rejected(sts, "cannot provide both the index and pin arguments")
    ELSE IF ~index.isNone /\ ~values.isNone /\ values.items # <<>>
    THEN Rejected(sts, "cannot provide both the index and values arguments")
    ELSE IF ~values.isNone /\ \E k \in 1..Len(values.items) : values.items[k].v \notin {0, 1}
    THEN Rejected(sts, "invalid state in values argument")
    ELSE
    LET r == unsafe_update(W, T, th, sts, index, pin, values)
    IN  [states |-> r.states, exc |-> r.exc, msg |-> r.msg, core |-> TRUE, ret |-> r.ret]

\* update with the state-space check made after the argument guards
update_state_check_last(n, W, T, th, sts, index, pin, values) ==
    IF ~index.isNone /\ ~pin.isNone /\ pin.items # <<>>
    THEN Rejected(sts, "cannot provide both the index and pin arguments")
    ELSE IF ~index.isNone /\ ~values.isNone /\ values.items # <<>>
    THEN Rejected(sts, "cannot provide both the index and values arguments")
    ELSE IF /\ index.isNone /\ ~pin.isNone /\ ~values.isNone
            /\ \E k \in 1..Len(values.items) : InList(values.items[k].k, pin.items)
    THEN Rejected(sts, "cannot set a value for a pinned state")
    ELSE IF ~values.isNone /\ \E k \in 1..Len(values.items) : values.items[k].v \notin {0, 1}
    THEN Rejected(sts, "invalid state in values argument")
    ELSE IF ~state_space_contains(n, sts)
    THEN Rejected(sts, "the provided state is not in the network's state space")
    ELSE
    LET r == unsafe_update(W, T, th, sts, index, pin, values)
    IN  [states |-> r.states, exc |-> r.exc, msg |-> r.msg, core |-> TRUE, ret |-> r.ret]

\* update without the check that the values are binary
update_no_values_check(n, W, T, th, sts, index, pin, values) ==
    IF ~state_space_contains(n, sts)
    THEN Rejected(sts, "the provided state is not in the network's state space")
    ELSE IF ~index.isNone /\ ~pin.isNone /\ pin.items # <<>>
    THEN Rejected(sts, "cannot provide both the index and pin arguments")
    ELSE IF ~index.isNone /\ ~values.isNone /\ values.items # <<>>
    THEN Rejected(sts, "cannot provide both the index and values arguments")
    ELSE IF /\ index.isNone /\ ~pin.isNone /\ ~values.isNone
            /\ \E k \in 1..Len(values.items) : InList(values.items[k].k, pin.items)
    THEN Rejected(sts, "cannot set a value for a pinned state")
    ELSE
    LET r == unsafe_update(W, T, th, sts, index, pin, values)
    IN  [states |-> r.states, exc |-> r.exc, msg |-> r.msg, core |-> TRUE, ret |-> r.ret]

update(n, W, T, th, sts, index, pin, values) ==
    IF ~state_space_contains(n, sts)
    THEN Rejected(sts, "the provided state is not in the network's state space")
    ELSE IF ~index.isNone /\ ~pin.isNone /\ pin.items # <<>>
    THEN Rejected(sts, "cannot provide both the index and pin arguments")
    ELSE IF ~index.isNone /\ ~values.isNone /\ values.items # <<>>
    THEN Rejected(sts, "cannot provide both the index and values arguments")
    ELSE IF /\ index.isNone /\ ~pin.isNone /\ ~values.isNone
            /\ \E k \in 1..Len(values.items) : InList(values.items[k].k, pin.items)
    THEN Rejected(sts, "cannot set a value for a pinned state")
    ELSE IF ~values.isNone /\ \E k \in 1..Len(values.items) : values.items[k].v \notin {0, 1}
    THEN Rejected(sts, "invalid state in values argument")
    ELSE
    LET r == unsafe_update(W, T, th, sts, index, pin, values)
    IN  [states |-> r.states, exc |-> r.exc, msg |-> r.msg, core |-> TRUE, ret |-> r.ret]

(***************************************************************************)
(* WTNetwork.neighbors_in, neighbors_out, neighbors                        *)
(***************************************************************************)
\* neighbors_in without the node itself under split_threshold
neighbors_in_no_self(W, th, index) == flatnonzero(Row(W, index))

neighbors_in(W, th, index) ==
    IF th = "negative_threshold" \/ th = "positive_threshold"
    THEN flatnonzero(Row(W, index))
    ELSE flatnonzero(Row(W, index)) \union {index}

\* neighbors_out reading the row of the node instead of its column
neighbors_out_by_row(W, th, index) ==
    IF th = "negative_threshold" \/ th = "positive_threshold"
    THEN flatnonzero(Row(W, index))
    ELSE flatnonzero(Row(W, index)) \union {index}

neighbors_out(W, th, index) ==
    IF th = "negative_threshold" \/ th = "positive_threshold"
    THEN flatnonzero(Col(W, index))
    ELSE flatnonzero(Col(W, index)) \union {index}

neighbors(W, th, index) ==
    neighbors_in(W, th, index) \union neighbors_out(W, th, index)

(***************************************************************************)
(* RewiredECA.__init__, size, state_space                                  *)
(***************************************************************************)
PyNone == [type |-> "NoneType", val |-> 0]

PyInt(n) == [type |-> "int", val |-> n]

PyStr(n) == [type |-> "str", val |-> n]

\* boundary: None, or a tuple or a list of entries
NoneBoundary == [type |-> "NoneType", items |-> <<>>]

NoneWiring == [isNone |-> TRUE, rows |-> <<>>]

\* no RewiredECA object exists
NoReca == [built |-> FALSE, code |-> PyNone, boundary |-> NoneBoundary,
           size |-> PyNone, wiring |-> NoneWiring]

\* ECA.__init__(code, boundary): the code is an int of 0..255 and the
\* boundary is None or a tuple of two binary values
ECA_init(code, boundary) ==
    IF code.type # "int"
    THEN [exc |-> "TypeError", msg |-> ""]
    ELSE IF code.val < 0 \/ code.val > 255
    THEN [exc |-> "ValueError", msg |-> ""]
    ELSE IF boundary.type = "NoneType"
    THEN [exc |-> NoExc, msg |-> ""]
    ELSE IF boundary.type # "tuple"
    THEN [exc |-> "TypeError", msg |-> ""]
    ELSE IF Len(boundary.items) # 2
    THEN [exc |-> "ValueError", msg |-> ""]
    ELSE IF \E k \in 1..Len(boundary.items) : boundary.items[k] \notin {0, 1}
    THEN [exc |-> "ValueError", msg |-> ""]
    ELSE [exc |-> NoExc, msg |-> ""]

RecaError(exc, msg) == [exc |-> exc, msg |-> msg, obj |-> NoReca]

\* __init__ taking the size whenever one is given, whatever the wiring
RewiredECA_init_size_first(code, boundary, sz, wiring) ==
    LET base == ECA_init(code, boundary)
    IN
    IF base.exc # NoExc THEN RecaError(base.exc, base.msg)
    ELSE IF sz.type # "NoneType"
    THEN IF sz.type # "int"
         THEN RecaError("TypeError", "size must be an int")
         ELSE IF sz.val <= 0
         THEN RecaError("ValueError", "size must be positive, nonzero")
         ELSE [exc |-> NoExc, msg |-> "",
               obj |-> [built |-> TRUE, code |-> code, boundary |-> boundary,
                        size |-> sz, wiring |-> NoneWiring]]
    ELSE IF ~wiring.isNone
    THEN [exc |-> NoExc, msg |-> "",
          obj |-> [built |-> TRUE, code |-> code, boundary |-> boundary,
                   size |-> PyNone, wiring |-> wiring]]
    ELSE RecaError("ValueError", "either size or wiring must be provided")

RewiredECA_init(code, boundary, sz, wiring) ==
    LET base == ECA_init(code, boundary)
    IN
    IF base.exc # NoExc THEN RecaError(base.exc, base.msg)
    ELSE IF sz.type # "NoneType" /\ ~wiring.isNone
    THEN RecaError("ValueError", "cannot provide size and wiring at the same time")
    ELSE IF sz.type # "NoneType"
    THEN IF sz.type # "int"
         THEN RecaError("TypeError", "size must be an int")
         ELSE IF sz.val <= 0
         THEN RecaError("ValueError", "size must be positive, nonzero")
         ELSE [exc |-> NoExc, msg |-> "",
               obj |-> [built |-> TRUE, code |-> code, boundary |-> boundary,
                        size |-> sz, wiring |-> NoneWiring]]
    ELSE IF ~wiring.isNone
    THEN [exc |-> NoExc, msg |-> "",
          obj |-> [built |-> TRUE, code |-> code, boundary |-> boundary,
                   size |-> PyNone, wiring |-> wiring]]
    ELSE RecaError("ValueError", "either size or wiring must be provided")

\* the size property: self.__size
RewiredECA_size(obj) == obj.size

\* state_space(): the arguments handed to StateSpace
RewiredECA_state_space(obj) == [n |-> obj.size, b |-> 2]

(***************************************************************************)
(* Inputs.                                                                 *)
(***************************************************************************)
Nodes(n) == 0..(n - 1)

\* the indices that denote a node of an n-node network, Python style
Indices(n) == (-n)..(n - 1)

\* the indices a caller may pass: the valid ones and one beyond either end
Keys(n) == (-n - 1)..n

\* the state space of an n-node network
BinaryStates(n) == [Nodes(n) -> {0, 1}]

\* vectors outside the state space: wrong length, or one entry that is 2
InvalidStates(n) ==
    {[i \in Nodes(n + 1) |-> 0], [i \in Nodes(n - 1) |-> 0]}
    \union {[i \in Nodes(n) |-> IF i = k THEN 2 ELSE 0] : k \in Nodes(n)}

\* square weight arrays with at most two nonzero entries
SparseWeights(n) ==
    {[kind |-> "array", n |-> 0, shape |-> <<n, n>>, data |-> d] :
        d \in {e \in [0..(n * n - 1) -> WeightVals] :
                  Cardinality({k \in DOMAIN e : e[k] # 0}) <= 2}}

\* threshold vectors with at most one nonzero entry
SparseThresholds(n) ==
    {[isNone |-> FALSE, shape |-> <<n>>, data |-> d] :
        d \in {e \in [Nodes(n) -> WeightVals] :
                  Cardinality({k \in DOMAIN e : e[k] # 0}) <= 1}}

\* WTNetwork(n): a bare size
IntWeights(n) == [kind |-> "int", n |-> n, shape |-> <<>>, data |-> <<>>]

NoneThresholds == [isNone |-> TRUE, shape |-> <<>>, data |-> <<>>]

NoneNames == [isNone |-> TRUE, items |-> <<>>]

NoCall(s0) == [op |-> "init", pre |-> s0, index |-> NoneIndex,
               pin |-> NonePin, values |-> NoneValues]

NoResult == [exc |-> NoExc, msg |-> "", core |-> FALSE]

\* the fields of a freshly constructed network and a caller's state vector
Constructed(r, s0) ==
    /\ r.exc = NoExc
    /\ weights = r.obj.weights
    /\ thresholds = r.obj.thresholds
    /\ theta = r.obj.theta
    /\ names = r.obj.names
    /\ size = r.obj.size
    /\ states = s0
    /\ call = NoCall(s0)
    /\ result = NoResult
    /\ reca = NoReca

(***************************************************************************)
(* Spec: whole-network and single-node updates over a family of networks.  *)
(***************************************************************************)
Init ==
    \E n \in 1..MaxSize :
      \E wArg \in SparseWeights(n) \union {IntWeights(n)} :
        \E tArg \in SparseThresholds(n) \union {NoneThresholds} :
          \E thArg \in ThetaNames \union {"None"} :
            \E s0 \in BinaryStates(n) :
              Constructed(WTNetwork_init(wArg, tArg, NoneNames, thArg), s0)

\* net.update(pre, index, pin, values): the caller passes its vector pre,
\* which the call mutates in place
DoUpdate(pre, index, pin, values) ==
    LET r == update(size, weights, thresholds, theta, pre, index, pin, values)
    IN  /\ states' = r.states
        /\ call' = [op |-> "update", pre |-> pre, index |-> index,
                    pin |-> pin, values |-> values]
        /\ result' = [exc |-> r.exc, msg |-> r.msg, core |-> r.core, ret |-> r.ret]
        /\ UNCHANGED netvars

\* no call is being observed: the caller holds its vector and the network
Idle == call.op = "init"

\* the caller is done with the call it made and keeps the vector it holds
Return ==
    /\ ~Idle
    /\ call' = NoCall(states)
    /\ result' = NoResult
    /\ UNCHANGED <<netvars, states>>

\* net.update(states)
UpdateAll ==
    /\ Idle
    /\ DoUpdate(states, NoneIndex, NonePin, NoneValues)

\* net.update(states, index=i)
UpdateNode ==
    /\ Idle
    /\ \E i \in Indices(size) :
          DoUpdate(states, [isNone |-> FALSE, val |-> i], NonePin, NoneValues)

Next == UpdateAll \/ UpdateNode \/ Return

Spec == Init /\ [][Next]_vars

(***************************************************************************)
(* SpecCalls: every shape of call to update, valid or not, on a few        *)
(* networks.                                                               *)
(***************************************************************************)
\* every node inhibits itself
SelfInhibition(n) ==
    [kind |-> "array", n |-> 0, shape |-> <<n, n>>,
     data |-> [k \in 0..(n * n - 1) |-> IF k \div n = k % n THEN -1 ELSE 0]]

\* node i is driven by node i+1, cyclically
Ring(n) ==
    [kind |-> "array", n |-> 0, shape |-> <<n, n>>,
     data |-> [k \in 0..(n * n - 1) |-> IF k % n = ((k \div n) + 1) % n THEN 1 ELSE 0]]

\* sequences over S of length lo..hi
SeqsBetween(S, lo, hi) == UNION {[1..m -> S] : m \in lo..hi}

\* pin=None, pin=[] and the pin lists of length up to m
PinArgs(n, m) ==
    {NonePin} \union {[isNone |-> FALSE, items |-> p] : p \in SeqsBetween(Keys(n), 0, m)}

\* the items of a dict with one key, and with two distinct keys in either order
ValueItems(n) == [k : Keys(n), v : EntryVals]

OneValue(n) == {<<a>> : a \in ValueItems(n)}

TwoValues(n) == {<<a, b>> : a, b \in ValueItems(n)} \ {<<a, b>> \in ValueItems(n) \X ValueItems(n) : a.k = b.k}

\* values=None, values={} and the dicts given
ValuesArgs(itemsets) ==
    {NoneValues} \union {[isNone |-> FALSE, items |-> d] : d \in {<<>>} \union itemsets}

InitCalls ==
    \E n \in 1..MaxSize :
      \E wArg \in {SelfInhibition(n), Ring(n)} :
        \E thArg \in ThetaNames :
          \E s0 \in BinaryStates(n) \union InvalidStates(n) :
            Constructed(WTNetwork_init(wArg, NoneThresholds, NoneNames, thArg), s0)

\* net.update(states, pin=P)
UpdatePinned ==
    /\ Idle
    /\ \E pin \in PinArgs(size, MaxPin) :
          DoUpdate(states, NoneIndex, pin, NoneValues)

\* net.update(states, pin=P, values=V)
UpdateValues ==
    /\ Idle
    /\ \E pin \in PinArgs(size, 1) :
        \E values \in ValuesArgs(OneValue(size) \union TwoValues(size)) :
          DoUpdate(states, NoneIndex, pin, values)

\* net.update(states, index=i, pin=P, values=V)
UpdateIndexed ==
    /\ Idle
    /\ \E i \in Keys(size) :
        \E pin \in PinArgs(size, 1) :
          \E values \in ValuesArgs(OneValue(size)) :
            DoUpdate(states, [isNone |-> FALSE, val |-> i], pin, values)

NextCalls == UpdatePinned \/ UpdateValues \/ UpdateIndexed \/ Return

SpecCalls == InitCalls /\ [][NextCalls]_vars

(***************************************************************************)
(* SpecTheta: the threshold functions called on their own.                 *)
(***************************************************************************)
\* shifted values handed to a threshold function
ShiftedVals == {-2, -1, 0, 1, 2}

\* the static methods need no network: the caller holds a list of states
InitTheta ==
    /\ weights = NoNet.weights
    /\ thresholds = NoNet.thresholds
    /\ theta = NoNet.theta
    /\ names = NoNet.names
    /\ size = NoNet.size
    /\ \E n \in 0..(MaxSize + 1) : states \in BinaryStates(n)
    /\ call = NoCall(states)
    /\ result = NoResult
    /\ reca = NoReca

\* WTNetwork.<theta>(values, states) with a list of values as long as states
CallThetaList ==
    /\ Idle
    /\ \E th \in ThetaNames :
        \E vals \in [DOMAIN states -> ShiftedVals] :
          /\ states' = theta_list(th, vals, states)
          /\ call' = [op |-> "theta_list", theta |-> th, values |-> vals, pre |-> states]
          /\ result' = [exc |-> NoExc, msg |-> "", ret |-> states']
          /\ UNCHANGED netvars

\* WTNetwork.<theta>(values, states) with a scalar value and a scalar state
CallThetaScalar ==
    /\ Idle
    /\ \E th \in ThetaNames :
        \E x \in ShiftedVals :
          \E y \in {0, 1} :
            /\ call' = [op |-> "theta_scalar", theta |-> th, values |-> x, pre |-> y]
            /\ result' = [exc |-> NoExc, msg |-> "", ret |-> theta_scalar(th, x, y)]
            /\ UNCHANGED <<netvars, states>>

NextTheta == CallThetaList \/ CallThetaScalar \/ Return

SpecTheta == InitTheta /\ [][NextTheta]_vars

(***************************************************************************)
(* SpecNeighbors: the neighbour queries, with theta rebound by the caller. *)
(***************************************************************************)
\* a theta of the caller's own
AnyTheta == ThetaNames \union {"custom_theta"}

InitNeighbors ==
    \E n \in 1..MaxSize :
      \E wArg \in SparseWeights(n) \union {IntWeights(n)} :
        \E thArg \in AnyTheta \union {"None"} :
          Constructed(WTNetwork_init(wArg, NoneThresholds, NoneNames, thArg),
                      [i \in Nodes(n) |-> 0])

\* net.theta = th
SetTheta ==
    /\ Idle
    /\ \E th \in AnyTheta \ {theta} :
          /\ theta' = th
          /\ call' = [op |-> "set_theta", pre |-> theta]
          /\ result' = NoResult
          /\ UNCHANGED <<weights, thresholds, names, size, states, reca>>

\* a query may follow construction or an assignment to theta
Queryable == call.op \in {"init", "set_theta"}

Query(op, index, ret) ==
    /\ call' = [op |-> op, index |-> index, after |-> call.op]
    /\ result' = [exc |-> NoExc, msg |-> "", ret |-> ret]
    /\ UNCHANGED <<netvars, states>>

\* net.neighbors_in(i)
CallNeighborsIn ==
    /\ Queryable
    /\ \E i \in Nodes(size) : Query("neighbors_in", i, neighbors_in(weights, theta, i))

\* net.neighbors_out(i)
CallNeighborsOut ==
    /\ Queryable
    /\ \E i \in Nodes(size) : Query("neighbors_out", i, neighbors_out(weights, theta, i))

\* net.neighbors(i)
CallNeighbors ==
    /\ Queryable
    /\ \E i \in Nodes(size) : Query("neighbors", i, neighbors(weights, theta, i))

NextNeighbors ==
    SetTheta \/ CallNeighborsIn \/ CallNeighborsOut \/ CallNeighbors \/ Return

SpecNeighbors == InitNeighbors /\ [][NextNeighbors]_vars

(***************************************************************************)
(* SpecInit: calls of the constructor, valid or not.                       *)
(***************************************************************************)
\* an array-like of the given shape, filled with ones
OnesArray(shape) == [k \in 0..(Prod(shape) - 1) |-> 1]

\* shapes with d dimensions, each of extent 0..m
Shapes(d, m) == [1..d -> 0..m]

\* weights: an int from -1 on, or an array-like with one, two or three dimensions
WeightsArgs ==
    {IntWeights(n) : n \in (-1)..MaxSize}
    \union {[kind |-> "array", n |-> 0, shape |-> sh, data |-> OnesArray(sh)] :
               sh \in Shapes(1, MaxSize) \union Shapes(2, MaxSize) \union Shapes(3, 1)}

\* thresholds: None, a scalar, a vector or a matrix
ThresholdsArgs ==
    {NoneThresholds}
    \union {[isNone |-> FALSE, shape |-> sh, data |-> OnesArray(sh)] :
               sh \in {<<>>} \union Shapes(1, MaxSize + 1) \union Shapes(2, 1)}

\* names: None, or a list of up to MaxSize + 1 names
NamesArgs ==
    {NoneNames}
    \union {[isNone |-> FALSE, items |-> [k \in 1..m |-> "name"]] : m \in 0..(MaxSize + 1)}

\* theta: None, a callable, or something that cannot be called
ThetaArgs == AnyTheta \union {"None", "not_callable"}

\* no network exists yet
InitNone ==
    /\ weights = NoNet.weights
    /\ thresholds = NoNet.thresholds
    /\ theta = NoNet.theta
    /\ names = NoNet.names
    /\ size = NoNet.size
    /\ states = <<>>
    /\ call = NoCall(<<>>)
    /\ result = NoResult
    /\ reca = NoReca

\* WTNetwork(weights, thresholds, names, theta)
Construct ==
    /\ Idle
    /\ \E wArg \in WeightsArgs :
        \E tArg \in ThresholdsArgs :
          \E nArg \in NamesArgs :
            \E thArg \in ThetaArgs :
              LET r == WTNetwork_init(wArg, tArg, nArg, thArg)
              IN  /\ weights' = r.obj.weights
                  /\ thresholds' = r.obj.thresholds
                  /\ theta' = r.obj.theta
                  /\ names' = r.obj.names
                  /\ size' = r.obj.size
                  /\ call' = [op |-> "construct", weights |-> wArg, thresholds |-> tArg,
                              names |-> nArg, theta |-> thArg]
                  /\ result' = [exc |-> r.exc, msg |-> r.msg]
                  /\ UNCHANGED <<states, reca>>

\* the caller drops the network, or the exception
Discard ==
    /\ ~Idle
    /\ weights' = NoNet.weights
    /\ thresholds' = NoNet.thresholds
    /\ theta' = NoNet.theta
    /\ names' = NoNet.names
    /\ size' = NoNet.size
    /\ call' = NoCall(<<>>)
    /\ result' = NoResult
    /\ UNCHANGED <<states, reca>>

NextInit == Construct \/ Discard

SpecInit == InitNone /\ [][NextInit]_vars

(***************************************************************************)
(* SpecReca: construction of a RewiredECA and the reading of its size.     *)
(***************************************************************************)
\* codes: two Wolfram codes, the ends of the range, one beyond either end, a string
CodeArgs == {PyInt(-1), PyInt(0), PyInt(30), PyInt(255), PyInt(256), PyStr(30)}

\* boundaries: None, tuples that are valid or not, and a list
BoundaryArgs ==
    {NoneBoundary}
    \union {[type |-> "tuple", items |-> b] :
               b \in {<<0, 0>>, <<1, 0>>, <<1, 2>>, <<1, 0, 1>>}}
    \union {[type |-> "list", items |-> <<1, 2>>]}

\* sizes: None, an int from -1 on, a string
SizeArgs == {PyNone, PyStr(3)} \union {PyInt(n) : n \in (-1)..(MaxSize + 1)}

\* wirings: None, an empty list, the three-cell wiring with the first cell
\* wired to the boundary
WiringArgs ==
    {NoneWiring,
     [isNone |-> FALSE, rows |-> <<>>],
     [isNone |-> FALSE, rows |-> <<(<<-1, 0, 1>>), <<0, 1, 2>>, <<1, 2, 0>>>>]}

\* RewiredECA(code, boundary, size, wiring)
ConstructReca ==
    /\ Idle
    /\ \E code \in CodeArgs :
        \E boundary \in BoundaryArgs :
          \E sz \in SizeArgs :
            \E wiring \in WiringArgs :
              LET r == RewiredECA_init(code, boundary, sz, wiring)
              IN  /\ reca' = r.obj
                  /\ call' = [op |-> "RewiredECA", code |-> code, boundary |-> boundary,
                              size |-> sz, wiring |-> wiring]
                  /\ result' = [exc |-> r.exc, msg |-> r.msg]
                  /\ UNCHANGED <<weights, thresholds, theta, names, size, states>>

\* an object has just been constructed
JustBuilt == call.op = "RewiredECA" /\ reca.built

\* ca.size
ReadSize ==
    /\ JustBuilt
    /\ call' = [op |-> "size"]
    /\ result' = [exc |-> NoExc, msg |-> "", ret |-> RewiredECA_size(reca)]
    /\ UNCHANGED <<netvars, states>>

\* ca.state_space(), up to the call of StateSpace
CallStateSpace ==
    /\ JustBuilt
    /\ call' = [op |-> "state_space"]
    /\ result' = [exc |-> NoExc, msg |-> "", ret |-> RewiredECA_state_space(reca)]
    /\ UNCHANGED <<netvars, states>>

\* the caller drops the automaton, or the exception
DiscardReca ==
    /\ ~Idle
    /\ reca' = NoReca
    /\ call' = NoCall(<<>>)
    /\ result' = NoResult
    /\ UNCHANGED <<weights, thresholds, theta, names, size, states>>

NextReca == ConstructReca \/ ReadSize \/ CallStateSpace \/ DiscardReca

SpecReca == InitNone /\ [][NextReca]_vars

(***************************************************************************)
(* Properties of the update calls.                                         *)
(***************************************************************************)
\* the sum f[0] + ... + f[n-1]
RECURSIVE SumTo(_, _)
SumTo(f, n) == IF n = 0 THEN 0 ELSE f[n - 1] + SumTo(f, n - 1)

\* sum over j of weights[i][j] * s[j], minus thresholds[i], for node i
ShiftedInput(i, s) ==
    SumTo([j \in Nodes(size) |-> weights.data[i * size + j] * s[j]], size)
        - thresholds.data[i]

\* the new value of node i as a function of the vector s alone
NodeRule(i, s) == theta_scalar(theta, ShiftedInput(i, s), s[i])

IsUpdate == call.op = "update"
NoIndex == call.index.isNone
NoPin == call.pin.isNone \/ call.pin.items = <<>>
NoValues == call.values.isNone \/ call.values.items = <<>>
PreValid == state_space_contains(size, call.pre)

\* C1: after update(s) with no index, pin or values on a network with a
\* built-in theta, every entry i equals theta applied to the shifted input of
\* node i and to s[i], both taken from the vector as it was before the call.
C1_Synchronous ==
    (IsUpdate /\ NoIndex /\ NoPin /\ NoValues /\ PreValid /\ theta \in ThetaNames)
        => /\ result.exc = NoExc
           /\ DOMAIN states = Nodes(size)
           /\ \A i \in Nodes(size) : states[i] = NodeRule(i, call.pre)

\* a whole-network update in which some node changed and another node's new
\* value differs from what the already-updated vector would have given it
C1_Witness ==
    /\ IsUpdate /\ NoIndex /\ NoPin /\ NoValues /\ result.exc = NoExc
    /\ \E i, j \in Nodes(size) :
          /\ i # j
          /\ states[i] # call.pre[i]
          /\ weights.data[j * size + i] # 0
          /\ NodeRule(j, call.pre) # NodeRule(j, [call.pre EXCEPT ![i] = states[i]])

\* C4: update(s, index=i) with -size <= i < size changes at most the entry
\* of the node i denotes; that entry becomes theta(dot(weights[i], s) -
\* thresholds[i], s[i]) and every other entry keeps its pre-call value.
C4_SingleNode ==
    (IsUpdate /\ ~NoIndex /\ InRange(call.index.val, size) /\ NoPin /\ NoValues
        /\ PreValid /\ theta \in ThetaNames)
        => LET node == Norm(call.index.val, size)
           IN  /\ result.exc = NoExc
               /\ DOMAIN states = Nodes(size)
               /\ states[node] = NodeRule(node, call.pre)
               /\ \A j \in Nodes(size) \ {node} : states[j] = call.pre[j]

\* a single-node update through a negative index that changed its node while
\* the whole-network rule would have changed some other node as well
C4_Witness ==
    /\ IsUpdate /\ ~NoIndex /\ call.index.val < 0 /\ result.exc = NoExc
    /\ states[Norm(call.index.val, size)] # call.pre[Norm(call.index.val, size)]
    /\ \E j \in Nodes(size) \ {Norm(call.index.val, size)} :
          NodeRule(j, call.pre) # call.pre[j]

PinItems == call.pin.items
ValItems == call.values.items

\* the messages of the usage errors and of the domain errors
MsgState == "the provided state is not in the network's state space"
MsgIndexPin == "cannot provide both the index and pin arguments"
MsgIndexValues == "cannot provide both the index and values arguments"
MsgPinned == "cannot set a value for a pinned state"
MsgValues == "invalid state in values argument"
UsageMsgs == {MsgIndexPin, MsgIndexValues, MsgPinned}

\* the call was refused by a guard of update: a ValueError, the core not reached
Refused == result.exc = "ValueError" /\ ~result.core

\* C2: update(s, pin=P) with no index and no values, s in the state space
\* and every entry of P in range, leaves every entry at a position in P
\* equal to its value before the call.
C2_PinnedKept ==
    (IsUpdate /\ NoIndex /\ NoValues /\ PreValid /\ ~call.pin.isNone
        /\ \A j \in 1..Len(PinItems) : InRange(PinItems[j], size))
        => /\ result.exc = NoExc
           /\ \A j \in 1..Len(PinItems) :
                 states[Norm(PinItems[j], size)] = call.pre[Norm(PinItems[j], size)]

\* a pinned call with two pinned nodes of different values, one written as
\* a negative index, whose rule would have changed both
C2_Witness ==
    /\ IsUpdate /\ NoIndex /\ NoValues /\ result.exc = NoExc
    /\ Len(PinItems) = 2
    /\ PinItems[1] < 0 /\ PinItems[2] >= 0
    /\ Norm(PinItems[1], size) # PinItems[2]
    /\ call.pre[Norm(PinItems[1], size)] # call.pre[PinItems[2]]
    /\ \A j \in 1..2 : NodeRule(Norm(PinItems[j], size), call.pre)
                          # call.pre[Norm(PinItems[j], size)]

\* C3: after update(s, pin=P, values=V) returns for s in the state space,
\* the entry at each key k of V equals V[k].
C3_ValuesFixed ==
    (IsUpdate /\ PreValid /\ result.exc = NoExc /\ ~call.values.isNone)
        => \A k \in 1..Len(ValItems) :
              states[Norm(ValItems[k].k, size)] = ValItems[k].v

\* C5: when the validated update raises a usage error or a domain error,
\* the caller's state vector is entry for entry what it was before the call.
C5_ErrorsLeaveState ==
    (IsUpdate /\ result.exc = "ValueError") => states = call.pre

\* a call refused for a non-binary value whose update would have changed the vector
C5_Witness ==
    /\ IsUpdate /\ PreValid /\ result.exc = "ValueError" /\ result.msg = MsgValues
    /\ NoIndex
    /\ \E i \in Nodes(size) : NodeRule(i, call.pre) # call.pre[i]

\* C6: update raises a usage error without reaching the core routine when
\* index comes with a non-empty pin, when index comes with a non-empty
\* values, and when index is absent and a key of values is an element of
\* pin; index with pin and values absent or empty passes these guards.  The
\* error is a ValueError; it carries the usage message unless an earlier
\* guard has raised its own ValueError.
C6_UsageErrors ==
    IsUpdate =>
        /\ (~NoIndex /\ ~NoPin)
              => (Refused /\ (PreValid => result.msg = MsgIndexPin))
        /\ (~NoIndex /\ ~NoValues)
              => (Refused /\ ((PreValid /\ NoPin) => result.msg = MsgIndexValues))
        /\ (NoIndex /\ ~call.pin.isNone /\ ~call.values.isNone
              /\ \E k \in 1..Len(ValItems) : InList(ValItems[k].k, PinItems))
              => (Refused /\ (PreValid => result.msg = MsgPinned))
        /\ (~NoIndex /\ NoPin /\ NoValues)
              => (result.msg \notin UsageMsgs /\ (PreValid => result.core))

\* a call without index refused because a key of values is pinned, although
\* its values are binary and its state is in the state space
C6_Witness ==
    /\ IsUpdate /\ NoIndex /\ PreValid /\ Refused /\ result.msg = MsgPinned
    /\ \A k \in 1..Len(ValItems) : ValItems[k].v \in {0, 1}
    /\ Len(ValItems) = 2

\* C7: update raises a domain error for every state vector whose length
\* differs from size or that has an entry other than 0 or 1, whatever the
\* other arguments are, this check being the first guard; and it raises a
\* ValueError for every values mapping with a value other than 0 or 1, the
\* domain error of values unless an earlier guard has raised.
C7_DomainErrors ==
    IsUpdate =>
        /\ (PyLen(call.pre) # size \/ \E i \in DOMAIN call.pre : call.pre[i] \notin {0, 1})
              => (Refused /\ result.msg = MsgState)
        /\ (~call.values.isNone /\ \E k \in 1..Len(ValItems) : ValItems[k].v \notin {0, 1})
              => /\ Refused
                 /\ (PreValid /\ result.msg \notin UsageMsgs) => result.msg = MsgValues

\* a vector outside the state space passed together with an index and a
\* pin, refused with the state-space error
C7_Witness ==
    /\ IsUpdate /\ ~PreValid /\ ~NoIndex /\ ~NoPin
    /\ Refused /\ result.msg = MsgState

(***************************************************************************)
(* Properties of the threshold functions.                                  *)
(***************************************************************************)
\* the documented table of the three functions
ThetaTable(th, x, y) ==
    CASE x < 0 -> 0
      [] x > 0 -> 1
      [] x = 0 -> (CASE th = "split_threshold" -> y
                     [] th = "negative_threshold" -> 0
                     [] th = "positive_threshold" -> 1)

\* C8: the scalar form of each threshold function follows the documented
\* table (split: 0, the prior state, 1; negative: 0, 0, 1; positive: 0, 1, 1
\* for a shifted value below, at and above zero), and the list form leaves
\* states[i] equal to the scalar form of (values[i], old states[i]) for all i.
C8_ThetaTable ==
    /\ call.op = "theta_scalar"
          => result.ret = ThetaTable(call.theta, call.values, call.pre)
    /\ call.op = "theta_list"
          => /\ DOMAIN states = DOMAIN call.pre
             /\ result.ret = states
             /\ \A i \in DOMAIN call.pre :
                   /\ states[i] = theta_scalar(call.theta, call.values[i], call.pre[i])
                   /\ states[i] = ThetaTable(call.theta, call.values[i], call.pre[i])

\* a list call of split_threshold that kept a 1 at a zero shifted value,
\* cleared another 1 and set a 0
C8_Witness ==
    /\ call.op = "theta_list" /\ call.theta = "split_threshold"
    /\ \E i, j, k \in DOMAIN call.pre :
          /\ call.values[i] = 0 /\ call.pre[i] = 1 /\ states[i] = 1
          /\ call.values[j] < 0 /\ call.pre[j] = 1 /\ states[j] = 0
          /\ call.values[k] > 0 /\ call.pre[k] = 0 /\ states[k] = 1

(***************************************************************************)
(* Properties of the neighbour queries.                                    *)
(***************************************************************************)
\* the nodes with a nonzero weight into node i, and out of node i
WeightIn(i) == {j \in Nodes(size) : weights.data[i * size + j] # 0}
WeightOut(i) == {j \in Nodes(size) : weights.data[j * size + i] # 0}

\* the self loop added for every theta but negative and positive
SelfLoop(i) ==
    IF theta \in {"negative_threshold", "positive_threshold"} THEN {} ELSE {i}

\* C9: for a node i of 0..size-1, neighbors_in(i) is the set of j with
\* weights[i][j] # 0 and neighbors_out(i) the set of j with weights[j][i] # 0
\* when theta is negative_threshold or positive_threshold; for every other
\* theta each set has i added; neighbors(i) is the union of the two; the
\* sets follow the theta currently bound.
C9_Neighbors ==
    /\ call.op = "neighbors_in"
          => result.ret = WeightIn(call.index) \union SelfLoop(call.index)
    /\ call.op = "neighbors_out"
          => result.ret = WeightOut(call.index) \union SelfLoop(call.index)
    /\ call.op = "neighbors"
          => result.ret = WeightIn(call.index) \union WeightOut(call.index)
                            \union SelfLoop(call.index)

\* neighbors_out of a node without a self weight, asked after theta was
\* rebound to negative_threshold: the column's nodes, which are not the
\* row's, and not the node itself
C9_Witness ==
    /\ call.op = "neighbors_out" /\ call.after = "set_theta"
    /\ theta = "negative_threshold"
    /\ result.ret # {}
    /\ call.index \notin result.ret
    /\ WeightIn(call.index) # WeightOut(call.index)

(***************************************************************************)
(* Properties of the constructor.                                          *)
(***************************************************************************)
\* the shape of the weights the constructor was given: n by n for an int n
ArgWeightsShape ==
    IF call.weights.kind = "int" THEN <<call.weights.n, call.weights.n>>
    ELSE call.weights.shape

\* the length of the thresholds given or, when omitted, of the default ones
ArgThresholdsLen ==
    IF call.thresholds.isNone THEN ArgWeightsShape[2] ELSE call.thresholds.shape[1]

\* one of the listed defects of the arguments, each stated where it is defined
ArgsDefect ==
    \/ Len(ArgWeightsShape) # 2
    \/ Len(ArgWeightsShape) = 2 /\ ArgWeightsShape[1] # ArgWeightsShape[2]
    \/ ~call.thresholds.isNone /\ Len(call.thresholds.shape) # 1
    \/ /\ Len(ArgWeightsShape) = 2
       /\ ~call.thresholds.isNone /\ Len(call.thresholds.shape) = 1
       /\ call.thresholds.shape[1] # ArgWeightsShape[1]
    \/ /\ Len(ArgWeightsShape) = 2
       /\ call.thresholds.isNone \/ Len(call.thresholds.shape) = 1
       /\ ArgThresholdsLen < 1
    \/ /\ Len(ArgWeightsShape) = 2
       /\ call.thresholds.isNone \/ Len(call.thresholds.shape) = 1
       /\ ~call.names.isNone /\ Len(call.names.items) # ArgThresholdsLen
    \/ call.theta # "None" /\ call.theta \notin AnyTheta

\* C10: construction fails whenever weights is not two-dimensional or not
\* square, thresholds is not one-dimensional or its length differs from the
\* weights dimension, the size is below 1, names has a length other than
\* size, or theta is given and not callable; a construction that succeeds
\* has size >= 1 equal to the rows, the columns and the thresholds length,
\* all-zero thresholds when omitted and split_threshold when theta is omitted.
C10_Construction ==
    call.op = "construct" =>
        /\ ArgsDefect => result.exc # NoExc
        /\ result.exc = NoExc =>
              /\ size >= 1
              /\ weights.shape = <<size, size>>
              /\ thresholds.shape = <<size>>
              /\ DOMAIN thresholds.data = Nodes(size)
              /\ DOMAIN weights.data = 0..(size * size - 1)
              /\ call.thresholds.isNone => \A i \in Nodes(size) : thresholds.data[i] = 0
              /\ call.theta = "None" => theta = "split_threshold"

\* a construction from a square array and names, with thresholds and theta
\* omitted, that succeeded
C10_WitnessBuilt ==
    /\ call.op = "construct" /\ result.exc = NoExc
    /\ call.weights.kind = "array" /\ size = MaxSize
    /\ call.thresholds.isNone /\ call.theta = "None"
    /\ ~call.names.isNone

\* a construction from a square array of size >= 1 and a non-empty vector
\* of thresholds, refused only because the two dimensions differ
C10_Witness ==
    /\ call.op = "construct" /\ result.exc = "ValueError"
    /\ result.msg = "weights and thresholds have different dimensions"
    /\ Len(ArgWeightsShape) = 2 /\ ArgWeightsShape[1] = ArgWeightsShape[2]
    /\ ArgWeightsShape[1] >= 1
    /\ ~call.thresholds.isNone /\ call.thresholds.shape[1] >= 1
    /\ call.names.isNone /\ call.theta = "None"

(***************************************************************************)
(* Further properties of the update calls.                                 *)
(***************************************************************************)
\* the network WTNetwork(size) would build: a bare size and every default
BareNetwork == WTNetwork_init(IntWeights(size), NoneThresholds, NoneNames, "None")

\* the network at hand is the one built from the bare integer size
IsBareNetwork ==
    /\ BareNetwork.exc = NoExc
    /\ weights = BareNetwork.obj.weights
    /\ thresholds = BareNetwork.obj.thresholds
    /\ theta = BareNetwork.obj.theta

\* C11: on a network built from the bare integer n >= 1, with the default
\* split theta, update(s) leaves every binary state vector s unchanged.
C11_BareIdentity ==
    (IsUpdate /\ NoIndex /\ NoPin /\ NoValues /\ PreValid /\ IsBareNetwork)
        => (result.exc = NoExc /\ states = call.pre)

\* an update of the largest bare network on a vector holding a 0 and a 1
C11_Witness ==
    /\ IsUpdate /\ NoIndex /\ NoPin /\ NoValues /\ IsBareNetwork
    /\ size = MaxSize /\ result.exc = NoExc
    /\ \E i, j \in Nodes(size) : call.pre[i] = 0 /\ call.pre[j] = 1

\* C12: after every update call that returns, the object returned is the
\* caller's own state vector, so the caller's vector and the returned
\* vector hold the same successor state.
C12_InPlace ==
    (IsUpdate /\ result.exc = NoExc)
        => (result.ret.obj = "states" /\ result.ret.val = states)

\* a call with pin and values has returned a vector unlike the one passed in
C12_Witness ==
    /\ IsUpdate /\ result.exc = NoExc /\ result.ret.obj = "states"
    /\ ~NoPin /\ ~NoValues /\ states # call.pre

\* C15: every call of the validated update that ends in an error of any
\* kind, an IndexError for an out-of-range index, pin entry or key of values
\* included, leaves the state vector exactly as it was before the call.
C15_AllErrorsLeaveState ==
    (IsUpdate /\ result.exc # NoExc) => states = call.pre

\* C16: in every accepted call with pin P and values V, each node denoted by
\* an entry of P, negative or not, has its pre-call value after the call;
\* and a call in which an entry of P and a key of V denote the same node is
\* refused with the usage error.
C16_PinnedNotFixed ==
    (IsUpdate /\ NoIndex /\ PreValid /\ ~call.pin.isNone /\ ~call.values.isNone)
        => /\ result.exc = NoExc
                => \A j \in 1..Len(PinItems) :
                      states[Norm(PinItems[j], size)] = call.pre[Norm(PinItems[j], size)]
           /\ (\E j \in 1..Len(PinItems) : \E k \in 1..Len(ValItems) :
                  /\ InRange(PinItems[j], size) /\ InRange(ValItems[k].k, size)
                  /\ Norm(PinItems[j], size) = Norm(ValItems[k].k, size))
                => (Refused /\ result.msg = MsgPinned)

\* C17: from a binary vector of length size, every update call that returns,
\* whatever its index, pin and values and whichever built-in theta, leaves a
\* vector of length size whose entries are 0 or 1; the caller's next call
\* starts from that vector.
C17_Closure ==
    (IsUpdate /\ PreValid /\ result.exc = NoExc /\ theta \in ThetaNames)
        => state_space_contains(size, states)

\* a call with pin and values has returned a vector other than the one given
C17_Witness ==
    /\ IsUpdate /\ PreValid /\ result.exc = NoExc
    /\ ~NoPin /\ Len(ValItems) = 2 /\ states # call.pre
    /\ state_space_contains(size, states)

\* the whole-network update of s, as a value
Successor(s) ==
    update(size, weights, thresholds, theta, s, NoneIndex, NonePin, NoneValues).states

\* s and t agree on every node of the set D
AgreeOn(D, s, t) == \A j \in D : s[j] = t[j]

\* C18: for each built-in theta, every node i and every two binary states
\* of length size that agree on every node of neighbors_in(i), the
\* whole-network updates of the two states give node i the same value.
C18_DependencySound ==
    (IsUpdate /\ NoIndex /\ NoPin /\ NoValues /\ PreValid /\ theta \in ThetaNames)
        => \A i \in Nodes(size) :
             \A t \in BinaryStates(size) :
                AgreeOn(neighbors_in(weights, theta, i), call.pre, t)
                    => Successor(t)[i] = states[i]

\* an update changed node i, which depends on some node, and another state
\* agrees with the updated one on the neighbours of i only
C18_Witness ==
    /\ IsUpdate /\ NoIndex /\ NoPin /\ NoValues /\ PreValid /\ result.exc = NoExc
    /\ \E i \in Nodes(size) :
          /\ states[i] # call.pre[i]
          /\ neighbors_in(weights, theta, i) # {}
          /\ \E t \in BinaryStates(size) :
                /\ t # call.pre
                /\ AgreeOn(neighbors_in(weights, theta, i), call.pre, t)
                /\ Successor(t)[i] = states[i]

(***************************************************************************)
(* Properties of RewiredECA.                                               *)
(***************************************************************************)
IsRecaCall == call.op = "RewiredECA"

\* the code and the boundary of the call are valid ones
ValidBase == ECA_init(call.code, call.boundary).exc = NoExc

SizeGiven == call.size.type # "NoneType"

WiringGiven == ~call.wiring.isNone

PositiveInt(v) == v.type = "int" /\ v.val > 0

\* C13: with a valid code and boundary, the construction of a RewiredECA
\* fails when both size and wiring are given, when neither is given, when
\* the size given is not an int (TypeError when it is given alone) and when
\* the size given is an int <= 0; it succeeds when exactly one of a positive
\* int size or a wiring is given.
C13_RecaConstruction ==
    (IsRecaCall /\ ValidBase) =>
        /\ (SizeGiven /\ WiringGiven) => (result.exc = "ValueError" /\ ~reca.built)
        /\ (~SizeGiven /\ ~WiringGiven) => (result.exc = "ValueError" /\ ~reca.built)
        /\ (SizeGiven /\ call.size.type # "int") => (result.exc # NoExc /\ ~reca.built)
        /\ (SizeGiven /\ ~WiringGiven /\ call.size.type # "int")
              => result.exc = "TypeError"
        /\ (SizeGiven /\ call.size.type = "int" /\ call.size.val <= 0)
              => (result.exc = "ValueError" /\ ~reca.built)
        /\ ((PositiveInt(call.size) /\ ~WiringGiven) \/ (~SizeGiven /\ WiringGiven))
              => (result.exc = NoExc /\ reca.built)

\* a size and an empty wiring given together have been refused
C13_Witness ==
    /\ IsRecaCall /\ ValidBase
    /\ PositiveInt(call.size) /\ WiringGiven /\ call.wiring.rows = <<>>
    /\ result.exc = "ValueError"

\* C14: every RewiredECA that was constructed is fixed-sized: its size
\* property is a positive integer, whether it was built from a size or from
\* a wiring, and state_space() builds the state space from that integer.
C14_FixedSized ==
    reca.built =>
        /\ PositiveInt(RewiredECA_size(reca))
        /\ call.op = "size" => PositiveInt(result.ret)
        /\ call.op = "state_space"
              => (PositiveInt(result.ret.n) /\ result.ret.n = RewiredECA_size(reca))

====
